---- MODULE Spec2Model ----
(***************************************************************************)
(* Story generation pipeline of StoryTime Studio: the server actions       *)
(* createStoryAction and regeneratePageIllustrationAction (lib/actions)    *)
(* and the four generation flows they call (ai/flows).  Each await of a    *)
(* flow is one step; the result of ai.generate / prompt is the input of    *)
(* that step.  Spec follows one request to the latest revision of the      *)
(* actions, FairSpec adds that awaited calls settle, LegacySpec follows    *)
(* createStoryAction as lib/actions.ts has it, ViewerSpec follows one      *)
(* mounted StoryViewer (components/story-viewer) and its requests, and     *)
(* HomeSpec follows the home page (app/page) and its create-story          *)
(* submissions.                                                            *)
(***************************************************************************)
EXTENDS Integers, Sequences, FiniteSets, TLC

VARIABLES
    pc,                     \* createStoryAction: the await it is suspended at
    payload,                \* CreateStoryPayload of the run
    baseCharacterImageUri,  \* const baseCharacterImageUri (optional string)
    storyResult,            \* const storyResult
    coverImageUri,          \* let coverImageUri (optional string)
    illustratedPages,       \* const illustratedPages: StoryPageData[]
    response,               \* the resolved CreateStoryResponse
    pageIndex,              \* how many of storyResult.pages the for loop has taken
    calls,                  \* the flow invocations made so far, in order
    answers,                \* what ai.generate / prompt answered to each settled call
    rpc,                    \* regeneratePageIllustrationAction: its await
    regenPayload,           \* RegeneratePageIllustrationPayload
    regenResponse,          \* the resolved RegeneratePageIllustrationResponse
    caught,                 \* catch (error): the value the catch block of the request caught
    viewerProps,            \* StoryViewer: the props it was mounted with
    currentPageIndex,       \* StoryViewer: useState(0)
    currentStoryPages,      \* StoryViewer: useState(pages)
    editablePageText,       \* StoryViewer: useState('')
    pageSpecificDetails,    \* StoryViewer: useState('')
    isRegenerating,         \* StoryViewer: useState(false)
    imageState,             \* StoryViewer: useState('loading_page_image')
    toast,                  \* StoryViewer: the last toast shown
    vpc,                    \* handleRegenerateIllustration: its await
    closure,                \* what the suspended handleRegenerateIllustration closed over
    storyData,              \* HomePage: useState<StoryData | null>(null)
    isLoading,              \* HomePage: useState(false)
    error,                  \* HomePage: useState<string | null>(null)
    submitting,             \* processSubmit calls suspended at await fileToDataUri
    creating                \* handleStoryCreate calls suspended at await createStoryAction

vars == <<pc, payload, baseCharacterImageUri, storyResult, coverImageUri,
          illustratedPages, response, pageIndex, calls, answers, rpc,
          regenPayload, regenResponse, caught, viewerProps, currentPageIndex,
          currentStoryPages, editablePageText, pageSpecificDetails, isRegenerating,
          imageState, toast, vpc, closure, storyData, isLoading, error,
          submitting, creating>>

createVars == <<pc, payload, baseCharacterImageUri, storyResult, coverImageUri,
                illustratedPages, response, pageIndex>>

regenVars == <<rpc, regenPayload, regenResponse>>

viewerVars == <<viewerProps, currentPageIndex, currentStoryPages, editablePageText,
                pageSpecificDetails, isRegenerating, imageState, toast, vpc, closure>>

homeVars == <<storyData, isLoading, error, submitting, creating>>

----------------------------------------------------------------------------
(* Bounds of the model *)

MaxPages == 2

\* how many create-story submissions are followed at once
MaxSubmissions == 2

----------------------------------------------------------------------------
(* JavaScript values: an optional string is <<>> (undefined) or <<s>> *)

Undefined == << >>

Str(s) == <<s>>

\* !x for an optional string: undefined and '' are falsy
Truthy(x) == x # Undefined /\ x[1] # ""

\* String.prototype.startsWith
StartsWith(s, prefix) ==
    /\ Len(s) >= Len(prefix)
    /\ SubSeq(s, 1, Len(prefix)) = prefix

\* String.prototype.includes
Includes(s, sub) ==
    \E i \in 1..(Len(s) - Len(sub) + 1) : SubSeq(s, i, i + Len(sub) - 1) = sub

\* String.prototype.substring(0, n)
Substring0(s, n) == IF Len(s) <= n THEN s ELSE SubSeq(s, 1, n)

UpperLetters == "ABCDEFGHIJKLMNOPQRSTUVWXYZ"

LowerLetters == "abcdefghijklmnopqrstuvwxyz"

LowerChar(c) ==
    IF \E i \in 1..26 : SubSeq(UpperLetters, i, i) = c
    THEN LET k == CHOOSE i \in 1..26 : SubSeq(UpperLetters, i, i) = c
         IN  SubSeq(LowerLetters, k, k)
    ELSE c

RECURSIVE ToLowerCase(_)
\* String.prototype.toLowerCase
ToLowerCase(s) ==
    IF Len(s) = 0 THEN ""
    ELSE IF Len(s) = 1 THEN LowerChar(s)
    ELSE LET h == Len(s) \div 2
         IN  ToLowerCase(SubSeq(s, 1, h)) \o ToLowerCase(SubSeq(s, h + 1, Len(s)))

----------------------------------------------------------------------------
(* The image-data-format predicate *)

\* x.startsWith('data:image')
IsImageDataUri(s) == StartsWith(s, "data:image")

----------------------------------------------------------------------------
(* Inputs: payloads and what the generation capability can answer *)

PhotoUris ==
    {"data:image/jpeg;base64,PHOTO", "data:text/plain;base64,QQ==",
     "blob:http://localhost/photo", ""}

GeneratedUris == {"data:image/png;base64,AAA", "data:image/png;base64,BBB"}

MalformedUris == {"", "data:text/plain;base64,QQ==", "https://cdn.example/img.png"}

DetailsOptions == {Undefined, Str("wears a red cape")}

CreateStoryPayloads ==
    [characterImageDataUri : PhotoUris,
     characterName : {"Mia"},
     storyTheme : {"adventure"},
     moralLesson : {"kindness"},
     additionalDetails : DetailsOptions]

NoPayload ==
    [characterImageDataUri |-> "", characterName |-> "", storyTheme |-> "",
     moralLesson |-> "", additionalDetails |-> Undefined]

RawMessages ==
    {"", "quota exceeded", "fetch failed: upstream connect error",
     "Upstream unavailable", "image generation failed",
     "FinishReason: CANDIDATE_FINISH_REASON_SAFETY",
     "candidate_finish_reason_safety from upstream"}

\* a thrown value: an Error, a string, or anything else
ErrorOf(m) == [type |-> "Error", message |-> m]

ThrownValues ==
    {ErrorOf(m) : m \in RawMessages}
        \cup {[type |-> "string", message |-> "upstream reset"],
              [type |-> "string", message |-> ""],
              [type |-> "other", message |-> ""]}

NoError == [type |-> "none", message |-> ""]

\* { media } of ai.generate: null, or an object whose url may be missing
MediaNull == [present |-> FALSE, url |-> Undefined]

Media(u) == [present |-> TRUE, url |-> u]

MediaValues ==
    {MediaNull} \cup {Media(Undefined)}
        \cup {Media(Str(u)) : u \in MalformedUris \cup GeneratedUris}

Throw(e) == [kind |-> "throw", error |-> e, media |-> MediaNull]

GenerateOutcomes ==
    {Throw(e) : e \in ThrownValues}
        \cup {[kind |-> "return", error |-> NoError, media |-> m] : m \in MediaValues}

\* StoryPage values the composer can produce
PagePool ==
    {[text |-> "Mia found a lost kitten.", sceneDescription |-> "Mia kneels by a kitten in the park"],
     [text |-> "Mia took the kitten home.", sceneDescription |-> "Mia carries the kitten at sunset"]}

PageSeqs == UNION {[1..n -> PagePool] : n \in 0..MaxPages}

\* { output } of the story prompt: null, or title/characterDescription/pages
OutputNull ==
    [present |-> FALSE, title |-> "", characterDescription |-> "",
     hasPages |-> FALSE, pages |-> << >>]

StoryOutputs ==
    {OutputNull}
        \cup [present : {TRUE}, title : {"", "Mia and the Kitten"},
              characterDescription : {"", "A girl with curly hair"},
              hasPages : {TRUE}, pages : PageSeqs]
        \cup {[present |-> TRUE, title |-> "Mia and the Kitten",
               characterDescription |-> "A girl with curly hair",
               hasPages |-> FALSE, pages |-> << >>]}

PromptOutcomes ==
    {[kind |-> "throw", error |-> e, output |-> OutputNull] : e \in ThrownValues}
        \cup {[kind |-> "return", error |-> NoError, output |-> o] : o \in StoryOutputs}

----------------------------------------------------------------------------
(* Flow results: a flow throws, or returns its one string field *)

FlowThrow(e) == [kind |-> "throw", error |-> e, value |-> Undefined]

FlowReturn(v) == [kind |-> "return", error |-> NoError, value |-> v]


\* animateCharacterFlow: input.photoDataUri goes to ai.generate; g is its answer
animateCharacterFlow(g) ==
    IF g.kind = "throw" THEN FlowThrow(g.error)
    ELSE IF ~g.media.present \/ ~Truthy(g.media.url)
    THEN FlowThrow(ErrorOf("Base character image generation failed or did not return a media URL."))
    ELSE FlowReturn(g.media.url)

\* generateCoverImageFlow
generateCoverImageFlow(input, g) ==
    IF g.kind = "throw" THEN FlowThrow(g.error)
    ELSE IF ~g.media.present \/ ~Truthy(g.media.url) \/ ~IsImageDataUri(g.media.url[1])
    THEN FlowThrow(ErrorOf("Cover image generation failed for title: \"" \o input.storyTitle
                           \o "\" or returned an invalid data URI."))
    ELSE FlowReturn(g.media.url)

\* generatePageIllustrationFlow
generatePageIllustrationFlow(input, g) ==
    IF g.kind = "throw" THEN FlowThrow(g.error)
    ELSE IF ~g.media.present \/ ~Truthy(g.media.url) \/ ~IsImageDataUri(g.media.url[1])
    THEN FlowThrow(ErrorOf("Page illustration generation failed for scene: \""
                           \o Substring0(input.sceneDescription, 50)
                           \o "...\" or returned an invalid data URI. Scene description: \""
                           \o Substring0(input.sceneDescription, 30) \o "...\""))
    ELSE FlowReturn(g.media.url)

\* generateStoryFromPreferencesFlow: p is the answer of prompt(input)
generateStoryFromPreferencesFlow(p) ==
    IF p.kind = "throw" THEN p
    ELSE IF ~p.output.present \/ ~p.output.hasPages \/ Len(p.output.pages) = 0
    THEN [kind |-> "throw",
          error |-> ErrorOf("Story generation failed to produce pages."),
          output |-> OutputNull]
    ELSE p

----------------------------------------------------------------------------
(* createStoryAction: the catch block *)

\* let errorMessage = ...; if (error instanceof Error) ... else if (typeof error === 'string')
CreateStoryRawMessage(e) ==
    IF e.type = "Error" THEN e.message
    ELSE IF e.type = "string" THEN e.message
    ELSE "An unknown error occurred while creating the story."

SafetyGuidance ==
    "The AI model flagged the content for safety reasons. Please try modifying your prompts (theme, moral, details) or uploaded image."

ServiceGuidance ==
    "There was an issue with the AI image generation service. Please try again later or with a different image/prompt."

\* CreateStoryErrorMessage matching 'upstream' and 'generation failed' in any letter case
CreateStoryErrorMessageAnyCase(e) ==
    LET errorMessage == CreateStoryRawMessage(e)
    IN  IF Includes(ToLowerCase(errorMessage), "candidate_finish_reason_safety")
        THEN SafetyGuidance
        ELSE IF \/ Includes(ToLowerCase(errorMessage), "upstream")
                \/ Includes(ToLowerCase(errorMessage), "generation failed")
        THEN ServiceGuidance
        ELSE errorMessage

\* CreateStoryErrorMessage testing for the service markers first
CreateStoryErrorMessageServiceFirst(e) ==
    LET errorMessage == CreateStoryRawMessage(e)
    IN  IF Includes(errorMessage, "upstream") \/ Includes(errorMessage, "generation failed")
        THEN ServiceGuidance
        ELSE IF Includes(ToLowerCase(errorMessage), "candidate_finish_reason_safety")
        THEN SafetyGuidance
        ELSE errorMessage

CreateStoryErrorMessage(e) ==
    LET errorMessage == CreateStoryRawMessage(e)
    IN  IF Includes(ToLowerCase(errorMessage), "candidate_finish_reason_safety")
        THEN SafetyGuidance
        ELSE IF Includes(errorMessage, "upstream") \/ Includes(errorMessage, "generation failed")
        THEN ServiceGuidance
        ELSE errorMessage

NoData ==
    [title |-> "", characterDescription |-> "", characterName |-> "",
     originalCharacterUri |-> Undefined, coverImageUri |-> Undefined,
     pages |-> << >>, storyTheme |-> "", moralLesson |-> "",
     additionalDetails |-> Undefined]

NoResponse == [success |-> FALSE, hasData |-> FALSE, data |-> NoData, error |-> Undefined]

CreateStoryFailure(e) ==
    [success |-> FALSE, hasData |-> FALSE, data |-> NoData,
     error |-> Str(CreateStoryErrorMessage(e))]

----------------------------------------------------------------------------
(* createStoryAction: the checks and assignments of the try block *)

\* PhotoCheck testing for the 'data:' scheme only
PhotoCheckSchemeOnly(p) ==
    IF ~StartsWith(p.characterImageDataUri, "data:")
    THEN ErrorOf("Invalid character image data URI format (original upload).")
    ELSE NoError

\* what the check of the uploaded photo throws (NoError: nothing thrown)
PhotoCheck(p) ==
    IF ~IsImageDataUri(p.characterImageDataUri)
    THEN ErrorOf("Invalid character image data URI format (original upload).")
    ELSE NoError

\* BaseCharacterCheck without the startsWith('data:image') test
BaseCharacterCheckNoPrefix(r) ==
    IF r.kind = "throw" THEN r.error
    ELSE IF ~Truthy(r.value)
    THEN ErrorOf("Failed to create base character image. The AI flow did not return an image URI.")
    ELSE NoError

\* what the checks after animateCharacter throw
BaseCharacterCheck(r) ==
    IF r.kind = "throw" THEN r.error
    ELSE IF ~Truthy(r.value)
    THEN ErrorOf("Failed to create base character image. The AI flow did not return an image URI.")
    ELSE IF ~IsImageDataUri(r.value[1])
    THEN ErrorOf("Base character image URI is not a valid image data URI.")
    ELSE NoError

\* StoryResultCheck without the !storyResult.title test
StoryResultCheckNoTitle(r) ==
    IF r.kind = "throw" THEN r.error
    ELSE IF \/ ~r.output.present
            \/ r.output.characterDescription = ""
            \/ ~r.output.hasPages
            \/ Len(r.output.pages) = 0
    THEN ErrorOf("Failed to generate story content. The AI flow did not return complete story data or pages.")
    ELSE NoError

\* StoryResultCheck without the !storyResult.characterDescription test
StoryResultCheckNoDescription(r) ==
    IF r.kind = "throw" THEN r.error
    ELSE IF \/ ~r.output.present
            \/ r.output.title = ""
            \/ ~r.output.hasPages
            \/ Len(r.output.pages) = 0
    THEN ErrorOf("Failed to generate story content. The AI flow did not return complete story data or pages.")
    ELSE NoError

\* what the check after generateStoryFromPreferences throws
StoryResultCheck(r) ==
    IF r.kind = "throw" THEN r.error
    ELSE IF \/ ~r.output.present
            \/ r.output.title = ""
            \/ r.output.characterDescription = ""
            \/ ~r.output.hasPages
            \/ Len(r.output.pages) = 0
    THEN ErrorOf("Failed to generate story content. The AI flow did not return complete story data or pages.")
    ELSE NoError

\* CoverImageUri taking whatever the call left, with no fallback
CoverImageUriNoFallback(base, r) == r.value

\* coverImageUri after the inner try/catch around generateCoverImage
CoverImageUri(base, r) ==
    IF r.kind = "return" /\ Truthy(r.value) /\ IsImageDataUri(r.value[1])
    THEN r.value
    ELSE base

\* IllustratedPage pushing the call's own value whether or not it is usable
IllustratedPageUnchecked(page, base, r) ==
    [text |-> page.text, sceneDescription |-> page.sceneDescription, imageUri |-> r.value]

\* the StoryPageData pushed for one page, in the try and in its catch
IllustratedPage(page, base, r) ==
    IF r.kind = "throw" \/ ~Truthy(r.value) \/ ~IsImageDataUri(r.value[1])
    THEN [text |-> page.text, sceneDescription |-> page.sceneDescription, imageUri |-> base]
    ELSE [text |-> page.text, sceneDescription |-> page.sceneDescription, imageUri |-> r.value]

\* PushPage skipping the page whose illustration failed
PushPageDropFailed(pages, page, base, r) ==
    IF r.kind = "throw" \/ ~Truthy(r.value) \/ ~IsImageDataUri(r.value[1])
    THEN pages
    ELSE Append(pages, IllustratedPage(page, base, r))

\* PushPage putting the new page in front of the earlier ones
PushPagePrepend(pages, page, base, r) == <<IllustratedPage(page, base, r)>> \o pages

\* illustratedPages.push(...): one page per iteration, whatever the call did
PushPage(pages, page, base, r) == Append(pages, IllustratedPage(page, base, r))

\* what the page-count check after the loop throws
CompletionCaught(story, pages) ==
    IF Len(pages) # Len(story.pages)
    THEN ErrorOf("Critical error: Mismatch in page count after illustration generation.")
    ELSE NoError

\* the page-count check and the return that follow the loop
CreateStoryCompletion(p, story, base, cover, pages) ==
    IF Len(pages) # Len(story.pages)
    THEN CreateStoryFailure(ErrorOf("Critical error: Mismatch in page count after illustration generation."))
    ELSE [success |-> TRUE, hasData |-> TRUE,
          data |-> [title |-> story.title,
                    characterDescription |-> story.characterDescription,
                    characterName |-> p.characterName,
                    originalCharacterUri |-> base,
                    coverImageUri |-> cover,
                    pages |-> pages,
                    storyTheme |-> p.storyTheme,
                    moralLesson |-> p.moralLesson,
                    additionalDetails |-> p.additionalDetails],
          error |-> Undefined]

----------------------------------------------------------------------------
(* The inputs createStoryAction builds for the flows *)

Call(flow, image, title, name, theme, moral, details, text, scene) ==
    [flow |-> flow, image |-> image, storyTitle |-> title, characterName |-> name,
     storyTheme |-> theme, moralLesson |-> moral, additionalDetails |-> details,
     pageText |-> text, sceneDescription |-> scene]

characterAnimationInput(p) ==
    Call("animateCharacter", p.characterImageDataUri, "", p.characterName,
         p.storyTheme, p.moralLesson, p.additionalDetails, "", "")

\* additionalDetails: payload.additionalDetails || ''
storyInput(p, base) ==
    Call("generateStoryFromPreferences", base[1], "", p.characterName,
         p.storyTheme, p.moralLesson,
         IF Truthy(p.additionalDetails) THEN p.additionalDetails ELSE Str(""), "", "")

coverImageInput(p, base, story) ==
    Call("generateCoverImage", base[1], story.title, p.characterName,
         p.storyTheme, "", p.additionalDetails, "", "")

\* pageIllustrationInput leaving the moral of the story out
pageIllustrationInputNoMoral(p, base, page) ==
    Call("generatePageIllustration", base[1], "", "",
         p.storyTheme, "", p.additionalDetails, page.text, page.sceneDescription)

pageIllustrationInput(p, base, page) ==
    Call("generatePageIllustration", base[1], "", "",
         p.storyTheme, p.moralLesson, p.additionalDetails, page.text, page.sceneDescription)

----------------------------------------------------------------------------
(* regeneratePageIllustrationAction *)

RegenSafetyGuidance ==
    "The AI model flagged the content for safety reasons. Please try modifying your text or prompts."

RegenServiceGuidance ==
    "There was an issue with the AI image generation service. Please try again later or with different text."

RegenRawMessage(e) ==
    IF e.type = "Error" THEN e.message
    ELSE IF e.type = "string" THEN e.message
    ELSE "An unknown error occurred while regenerating the illustration."

RegenErrorMessage(e) ==
    LET errorMessage == RegenRawMessage(e)
    IN  IF Includes(ToLowerCase(errorMessage), "candidate_finish_reason_safety")
        THEN RegenSafetyGuidance
        ELSE IF Includes(errorMessage, "upstream") \/ Includes(errorMessage, "generation failed")
        THEN RegenServiceGuidance
        ELSE errorMessage

NoRegenResponse == [success |-> FALSE, newImageUri |-> Undefined, error |-> Undefined]

RegenFailure(e) ==
    [success |-> FALSE, newImageUri |-> Undefined, error |-> Str(RegenErrorMessage(e))]

\* what the try block throws after the await
RegenCaught(r) ==
    IF r.kind = "throw" THEN r.error
    ELSE IF ~Truthy(r.value) \/ ~IsImageDataUri(r.value[1])
    THEN ErrorOf("Failed to regenerate page illustration or returned invalid data URI.")
    ELSE NoError

\* RegenCompletion answering a failure the way the pipeline does: with the base image
RegenCompletionFallback(p, r) ==
    IF r.kind = "throw" \/ ~Truthy(r.value) \/ ~IsImageDataUri(r.value[1])
    THEN [success |-> TRUE, newImageUri |-> Str(p.baseCharacterDataUri), error |-> Undefined]
    ELSE [success |-> TRUE, newImageUri |-> r.value, error |-> Undefined]

\* the try block after the await: the check of the result and the return
RegenCompletion(p, r) ==
    IF r.kind = "throw" THEN RegenFailure(r.error)
    ELSE IF ~Truthy(r.value) \/ ~IsImageDataUri(r.value[1])
    THEN RegenFailure(ErrorOf("Failed to regenerate page illustration or returned invalid data URI."))
    ELSE [success |-> TRUE, newImageUri |-> r.value, error |-> Undefined]

RegenPayloads ==
    [baseCharacterDataUri : {"data:image/png;base64,BASE", "https://cdn.example/base.png"},
     pageText : {"Mia found a lost kitten.", "Mia found a tiny kitten."},
     sceneDescription : {"Mia kneels by a kitten in the park"},
     storyTheme : {"adventure"},
     moralLesson : {"kindness"},
     additionalDetails : DetailsOptions]

NoRegenPayload ==
    [baseCharacterDataUri |-> "", pageText |-> "", sceneDescription |-> "",
     storyTheme |-> "", moralLesson |-> "", additionalDetails |-> Undefined]

regenCall(p) ==
    Call("generatePageIllustration", p.baseCharacterDataUri, "", "",
         p.storyTheme, p.moralLesson, p.additionalDetails, p.pageText, p.sceneDescription)

----------------------------------------------------------------------------
(* StoryViewer (components/story-viewer): its props and state values *)

\* String.prototype.trim: the white space of both ends goes
IsSpace(c) == c \in {" ", "\n", "\t"}

RECURSIVE TrimStart(_)
TrimStart(s) ==
    IF s # "" /\ IsSpace(SubSeq(s, 1, 1)) THEN TrimStart(SubSeq(s, 2, Len(s))) ELSE s

RECURSIVE TrimEnd(_)
TrimEnd(s) ==
    IF s # "" /\ IsSpace(SubSeq(s, Len(s), Len(s)))
    THEN TrimEnd(SubSeq(s, 1, Len(s) - 1))
    ELSE s

Trim(s) == TrimEnd(TrimStart(s))

SceneClause == "For this specific scene, also consider these visual details:"

\* combinedAdditionalDetails with the scene notes put in the place of the story's details
combinedAdditionalDetailsNotesOnly(additionalDetails, details) ==
    IF Trim(details) # ""
    THEN "\n" \o SceneClause \o " " \o Trim(details)
    ELSE IF Truthy(additionalDetails) THEN additionalDetails[1] ELSE ""

\* let combinedAdditionalDetails = additionalDetails || ''; if (pageSpecificDetails.trim()) ... +=
combinedAdditionalDetails(additionalDetails, details) ==
    LET general == IF Truthy(additionalDetails) THEN additionalDetails[1] ELSE ""
    IN  IF Trim(details) # ""
        THEN general \o "\n" \o SceneClause \o " " \o Trim(details)
        ELSE general

\* additionalDetails: combinedAdditionalDetails.trim() || undefined
sentAdditionalDetails(additionalDetails, details) ==
    LET combined == Trim(combinedAdditionalDetails(additionalDetails, details))
    IN  IF combined # "" THEN Str(combined) ELSE Undefined

\* the pages a story arrives with: their images are the styled character or generated ones
ViewerPageLists ==
    {<<[text |-> "Mia found a lost kitten.",
        sceneDescription |-> "Mia kneels by a kitten in the park",
        imageUri |-> Str("data:image/png;base64,AAA")],
       [text |-> "She carried it home.",
        sceneDescription |-> "Mia walks home holding the kitten",
        imageUri |-> Str("data:image/png;base64,BASE")]>>,
     <<[text |-> "Mia waved goodbye.",
        sceneDescription |-> "Mia waves from the garden gate",
        imageUri |-> Str("data:image/png;base64,AAA")]>>}

\* StoryViewerProps: the fields of a StoryData that createStoryAction returned
ViewerPropsValues ==
    [originalCharacterUri : {"data:image/png;base64,BASE"},
     pages : ViewerPageLists,
     storyTheme : {"adventure"},
     moralLesson : {"kindness"},
     additionalDetails : {Undefined, Str("wears a red cape"), Str(" loves stars ")}]

NoViewerProps ==
    [originalCharacterUri |-> "", pages |-> << >>, storyTheme |-> "",
     moralLesson |-> "", additionalDetails |-> Undefined]

\* what the user types into the page text and the scene notes
TypedPageTexts == {"Mia found a tiny kitten."}

TypedDetails == {"  ", " a red scarf "}

\* a toast is kept by its variant and title
NoToast == [variant |-> "none", title |-> ""]

NoClosure == [currentPageIndex |-> 0, currentStoryPages |-> << >>, editablePageText |-> ""]

\* no StoryViewer is on the page
ViewerUnmounted ==
    /\ viewerProps = NoViewerProps
    /\ currentPageIndex = 0
    /\ currentStoryPages = << >>
    /\ editablePageText = ""
    /\ pageSpecificDetails = ""
    /\ isRegenerating = FALSE
    /\ imageState = "loading_page_image"
    /\ toast = NoToast
    /\ vpc = "unmounted"
    /\ closure = NoClosure

----------------------------------------------------------------------------
(* HomePage (app/page): its state values *)

\* null is falsy like undefined
Null == << >>

\* the page after its first render
HomeIdle ==
    /\ storyData = Null
    /\ isLoading = FALSE
    /\ error = Null
    /\ submitting = 0
    /\ creating = 0

----------------------------------------------------------------------------

(* The state machine.  The two server actions keep no state between        *)
(* requests and share none, so one request is followed from its call to    *)
(* its response.                                                           *)

Init ==
    /\ pc = "idle"
    /\ payload = NoPayload
    /\ baseCharacterImageUri = Undefined
    /\ storyResult = OutputNull
    /\ coverImageUri = Undefined
    /\ illustratedPages = << >>
    /\ response = NoResponse
    /\ pageIndex = 0
    /\ calls = << >>
    /\ answers = << >>
    /\ rpc = "idle"
    /\ regenPayload = NoRegenPayload
    /\ regenResponse = NoRegenResponse
    /\ caught = NoError
    /\ ViewerUnmounted
    /\ HomeIdle

\* the answer of the capability as the log keeps it: without the error thrown
Answer(g) == [g EXCEPT !.error = NoError]

\* a throw inside the outer try: the catch block builds the response
Fail(e) ==
    /\ pc' = "done"
    /\ response' = CreateStoryFailure(e)
    /\ caught' = e
    /\ UNCHANGED <<baseCharacterImageUri, storyResult, coverImageUri,
                   illustratedPages, pageIndex, calls>>

\* createStoryAction(payload) up to its first await
CreateStoryInvoke ==
    /\ pc = "idle" /\ rpc = "idle"
    /\ \E p \in CreateStoryPayloads :
        /\ payload' = p
        /\ IF PhotoCheck(p) # NoError
           THEN Fail(PhotoCheck(p))
           ELSE /\ pc' = "animateCharacter"
                /\ calls' = Append(calls, characterAnimationInput(p))
                /\ UNCHANGED <<baseCharacterImageUri, storyResult, coverImageUri,
                               illustratedPages, response, pageIndex, caught>>
    /\ UNCHANGED <<answers, regenVars, viewerVars, homeVars>>

\* await animateCharacter(...) settles; up to await generateStoryFromPreferences
AnimateCharacterSettles ==
    /\ pc = "animateCharacter"
    /\ \E g \in GenerateOutcomes :
        LET r == animateCharacterFlow(g)
            thrown == BaseCharacterCheck(r)
        IN  /\ answers' = Append(answers, Answer(g))
            /\ IF thrown # NoError
               THEN Fail(thrown)
               ELSE /\ baseCharacterImageUri' = r.value
                    /\ pc' = "generateStory"
                    /\ calls' = Append(calls, storyInput(payload, r.value))
                    /\ UNCHANGED <<storyResult, coverImageUri, illustratedPages,
                                   response, pageIndex, caught>>
    /\ UNCHANGED <<payload, regenVars, viewerVars, homeVars>>

\* await generateStoryFromPreferences(...) settles; up to await generateCoverImage
GenerateStorySettles ==
    /\ pc = "generateStory"
    /\ \E o \in PromptOutcomes :
        LET r == generateStoryFromPreferencesFlow(o)
            thrown == StoryResultCheck(r)
        IN  /\ answers' = Append(answers, Answer(o))
            /\ IF thrown # NoError
               THEN Fail(thrown)
               ELSE /\ storyResult' = r.output
                    /\ coverImageUri' = baseCharacterImageUri
                    /\ pc' = "generateCover"
                    /\ calls' = Append(calls, coverImageInput(payload, baseCharacterImageUri,
                                                              r.output))
                    /\ UNCHANGED <<baseCharacterImageUri, illustratedPages,
                                   response, pageIndex, caught>>
    /\ UNCHANGED <<payload, regenVars, viewerVars, homeVars>>

\* LoopFrom taking the composed pages from the last to the first
LoopFromLastFirst(i, pages, cover) ==
    IF i < Len(storyResult.pages)
    THEN /\ pc' = "generatePage"
         /\ pageIndex' = i + 1
         /\ calls' = Append(calls, pageIllustrationInput(payload, baseCharacterImageUri,
                                    storyResult.pages[Len(storyResult.pages) - i]))
         /\ UNCHANGED <<response, caught>>
    ELSE /\ pc' = "done"
         /\ pageIndex' = i
         /\ response' = CreateStoryCompletion(payload, storyResult, baseCharacterImageUri,
                                              cover, pages)
         /\ caught' = CompletionCaught(storyResult, pages)
         /\ UNCHANGED calls

\* LoopFrom never returning once the loop has ended
LoopFromNoReturn(i, pages, cover) ==
    IF i < Len(storyResult.pages)
    THEN /\ pc' = "generatePage"
         /\ pageIndex' = i + 1
         /\ calls' = Append(calls, pageIllustrationInput(payload, baseCharacterImageUri,
                                                         storyResult.pages[i + 1]))
         /\ UNCHANGED <<response, caught>>
    ELSE /\ pc' = "afterLoop"
         /\ pageIndex' = i
         /\ UNCHANGED <<response, caught, calls>>

\* LoopFrom calling the illustration of the last page a second time
LoopFromCallAgain(i, pages, cover) ==
    IF i < Len(storyResult.pages) \/ Len(calls) = 3 + Len(storyResult.pages)
    THEN /\ pc' = "generatePage"
         /\ pageIndex' = IF i < Len(storyResult.pages) THEN i + 1 ELSE i
         /\ calls' = Append(calls, pageIllustrationInput(payload, baseCharacterImageUri,
                                                         storyResult.pages[pageIndex']))
         /\ UNCHANGED <<response, caught>>
    ELSE /\ pc' = "done"
         /\ pageIndex' = i
         /\ response' = CreateStoryCompletion(payload, storyResult, baseCharacterImageUri,
                                              cover, pages)
         /\ caught' = CompletionCaught(storyResult, pages)
         /\ UNCHANGED calls

\* the for loop takes its next page, or ends: the count check and the return
LoopFrom(i, pages, cover) ==
    IF i < Len(storyResult.pages)
    THEN /\ pc' = "generatePage"
         /\ pageIndex' = i + 1
         /\ calls' = Append(calls, pageIllustrationInput(payload, baseCharacterImageUri,
                                                         storyResult.pages[i + 1]))
         /\ UNCHANGED <<response, caught>>
    ELSE /\ pc' = "done"
         /\ pageIndex' = i
         /\ response' = CreateStoryCompletion(payload, storyResult, baseCharacterImageUri,
                                              cover, pages)
         /\ caught' = CompletionCaught(storyResult, pages)
         /\ UNCHANGED calls

\* await generateCoverImage(...) settles or throws; up to the first page's await
GenerateCoverSettles ==
    /\ pc = "generateCover"
    /\ \E g \in GenerateOutcomes :
        LET r == generateCoverImageFlow(calls[Len(calls)], g)
        IN  /\ answers' = Append(answers, Answer(g))
            /\ coverImageUri' = CoverImageUri(baseCharacterImageUri, r)
    /\ illustratedPages' = << >>
    /\ LoopFrom(0, illustratedPages', coverImageUri')
    /\ UNCHANGED <<payload, baseCharacterImageUri, storyResult, regenVars, viewerVars, homeVars>>

\* await generatePageIllustration(...) settles or throws; up to the next await
GeneratePageSettles ==
    /\ pc = "generatePage"
    /\ \E g \in GenerateOutcomes :
        LET page == storyResult.pages[pageIndex]
            r == generatePageIllustrationFlow(calls[Len(calls)], g)
        IN  /\ answers' = Append(answers, Answer(g))
            /\ illustratedPages' = PushPage(illustratedPages, page, baseCharacterImageUri, r)
    /\ coverImageUri' = coverImageUri
    /\ LoopFrom(pageIndex, illustratedPages', coverImageUri)
    /\ UNCHANGED <<payload, baseCharacterImageUri, storyResult, regenVars, viewerVars, homeVars>>

\* RegenerateStart without the check of the base character
RegenerateStartUnchecked(p) ==
    /\ regenPayload' = p
    /\ rpc' = "generatePage"
    /\ calls' = Append(calls, regenCall(p))
    /\ UNCHANGED <<regenResponse, caught>>

\* regeneratePageIllustrationAction(p) up to its await
RegenerateStart(p) ==
    /\ regenPayload' = p
    /\ IF ~IsImageDataUri(p.baseCharacterDataUri)
       THEN /\ rpc' = "done"
            /\ regenResponse' =
                   RegenFailure(ErrorOf("Invalid base character image data URI for regeneration."))
            /\ caught' = ErrorOf("Invalid base character image data URI for regeneration.")
            /\ UNCHANGED calls
       ELSE /\ rpc' = "generatePage"
            /\ calls' = Append(calls, regenCall(p))
            /\ UNCHANGED <<regenResponse, caught>>

\* a request to regeneratePageIllustrationAction with any payload
RegenerateInvoke ==
    /\ pc = "idle" /\ rpc = "idle"
    /\ \E p \in RegenPayloads : RegenerateStart(p)
    /\ UNCHANGED <<answers, createVars, viewerVars, homeVars>>

\* await generatePageIllustration(payload) settles or throws, with an outcome of the set
RegenerateSettlesFrom(outcomes) ==
    /\ rpc = "generatePage"
    /\ \E g \in outcomes :
        /\ answers' = Append(answers, Answer(g))
        /\ regenResponse' =
               RegenCompletion(regenPayload, generatePageIllustrationFlow(regenPayload, g))
        /\ caught' = RegenCaught(generatePageIllustrationFlow(regenPayload, g))
    /\ rpc' = "done"
    /\ UNCHANGED <<regenPayload, calls, createVars, viewerVars, homeVars>>

RegenerateSettles == RegenerateSettlesFrom(GenerateOutcomes)

Next ==
    \/ CreateStoryInvoke
    \/ AnimateCharacterSettles
    \/ GenerateStorySettles
    \/ GenerateCoverSettles
    \/ GeneratePageSettles
    \/ RegenerateInvoke
    \/ RegenerateSettles

Spec == Init /\ [][Next]_vars

\* Every flow call that is awaited settles (it returns or it throws), and the
\* event loop then runs the continuation of the await.
FairSpec ==
    /\ Spec
    /\ WF_vars(AnimateCharacterSettles)
    /\ WF_vars(GenerateStorySettles)
    /\ WF_vars(GenerateCoverSettles)
    /\ WF_vars(GeneratePageSettles)
    /\ WF_vars(RegenerateSettles)

----------------------------------------------------------------------------
(* createStoryAction as lib/actions.ts has it: the styler, then the story  *)
(* flow, then the response; no cover and no pages.                         *)

LegacyPayloads ==
    [characterImageDataUri : PhotoUris,
     storyTheme : {"adventure", "mystery"},
     moralLesson : {"kindness"},
     additionalDetails : DetailsOptions]

\* animateCharacterFlow of ai/flows/animate-character-from-image.ts
legacyAnimateCharacterFlow(g) ==
    IF g.kind = "throw" THEN FlowThrow(g.error)
    ELSE IF ~g.media.present \/ ~Truthy(g.media.url)
    THEN FlowThrow(ErrorOf("Image generation failed or did not return a media URL."))
    ELSE FlowReturn(g.media.url)

\* what the checks after animateCharacter throw
LegacyAnimationCheck(r) ==
    IF r.kind = "throw" THEN r.error
    ELSE IF ~Truthy(r.value)
    THEN ErrorOf("Failed to animate character. The AI flow did not return an animated character URI.")
    ELSE IF ~IsImageDataUri(r.value[1])
    THEN ErrorOf("Animated character URI is not a valid image data URI.")
    ELSE NoError

\* const storyInput: characterImage is payload.characterImageDataUri
legacyStoryInput(p) ==
    Call("generateStoryFromPreferences", p.characterImageDataUri, "", "",
         p.storyTheme, p.moralLesson,
         IF Truthy(p.additionalDetails) THEN p.additionalDetails ELSE Str(""), "", "")

\* { output } of the story prompt: null, or title/story/characterDescription
LegacyOutputNull == [present |-> FALSE, title |-> "", story |-> "", characterDescription |-> ""]

LegacyStoryOutputs ==
    {LegacyOutputNull}
        \cup [present : {TRUE}, title : {"", "Mia and the Kitten"},
              story : {"", "Once upon a time Mia found a kitten."},
              characterDescription : {"", "A girl with curly hair"}]

LegacyPromptOutcomes ==
    {[kind |-> "throw", error |-> e, output |-> LegacyOutputNull] : e \in ThrownValues}
        \cup {[kind |-> "return", error |-> NoError, output |-> o] : o \in LegacyStoryOutputs}

\* what the check after generateStoryFromPreferences throws
LegacyStoryCheck(r) ==
    IF r.kind = "throw" THEN r.error
    ELSE IF \/ ~r.output.present
            \/ r.output.title = ""
            \/ r.output.story = ""
            \/ r.output.characterDescription = ""
    THEN ErrorOf("Failed to generate story. The AI flow did not return complete story data.")
    ELSE NoError

\* the catch block: 'upstream' or 'Image generation failed' gives the service guidance
LegacyErrorMessage(e) ==
    LET errorMessage == CreateStoryRawMessage(e)
    IN  IF Includes(errorMessage, "upstream") \/ Includes(errorMessage, "Image generation failed")
        THEN ServiceGuidance
        ELSE errorMessage

LegacyNoData == [title |-> "", story |-> "", characterDescription |-> "",
                 animatedCharacterUri |-> Undefined]

LegacyFailure(e) ==
    [success |-> FALSE, hasData |-> FALSE, data |-> LegacyNoData,
     error |-> Str(LegacyErrorMessage(e))]

LegacyFail(e) ==
    /\ pc' = "done"
    /\ response' = LegacyFailure(e)
    /\ caught' = e
    /\ UNCHANGED <<baseCharacterImageUri, storyResult, calls>>

\* createStoryAction(payload) up to its first await
LegacyCreateStoryInvoke ==
    /\ pc = "idle"
    /\ \E p \in LegacyPayloads :
        /\ payload' = p
        /\ IF ~IsImageDataUri(p.characterImageDataUri)
           THEN LegacyFail(ErrorOf("Invalid character image data URI format."))
           ELSE /\ pc' = "animateCharacter"
                /\ calls' = Append(calls, Call("animateCharacter", p.characterImageDataUri,
                                               "", "", p.storyTheme, p.moralLesson,
                                               p.additionalDetails, "", ""))
                /\ UNCHANGED <<baseCharacterImageUri, storyResult, response, caught>>
    /\ UNCHANGED <<answers, coverImageUri, illustratedPages, pageIndex, regenVars, viewerVars, homeVars>>

\* await animateCharacter(...) settles; up to await generateStoryFromPreferences
LegacyAnimateCharacterSettles ==
    /\ pc = "animateCharacter"
    /\ \E g \in GenerateOutcomes :
        LET r == legacyAnimateCharacterFlow(g)
            thrown == LegacyAnimationCheck(r)
        IN  /\ answers' = Append(answers, Answer(g))
            /\ IF thrown # NoError
               THEN LegacyFail(thrown)
               ELSE /\ baseCharacterImageUri' = r.value
                    /\ pc' = "generateStory"
                    /\ calls' = Append(calls, legacyStoryInput(payload))
                    /\ UNCHANGED <<storyResult, response, caught>>
    /\ UNCHANGED <<payload, coverImageUri, illustratedPages, pageIndex, regenVars, viewerVars, homeVars>>

\* await generateStoryFromPreferences(...) settles; the return
LegacyGenerateStorySettles ==
    /\ pc = "generateStory"
    /\ \E o \in LegacyPromptOutcomes :
        LET thrown == LegacyStoryCheck(o)
        IN  /\ answers' = Append(answers, Answer(o))
            /\ IF thrown # NoError
               THEN LegacyFail(thrown)
               ELSE /\ storyResult' = o.output
                    /\ pc' = "done"
                    /\ response' = [success |-> TRUE, hasData |-> TRUE,
                                    data |-> [title |-> o.output.title,
                                              story |-> o.output.story,
                                              characterDescription |-> o.output.characterDescription,
                                              animatedCharacterUri |-> baseCharacterImageUri],
                                    error |-> Undefined]
                    /\ UNCHANGED <<baseCharacterImageUri, calls, caught>>
    /\ UNCHANGED <<payload, coverImageUri, illustratedPages, pageIndex, regenVars, viewerVars, homeVars>>

LegacyNext ==
    \/ LegacyCreateStoryInvoke
    \/ LegacyAnimateCharacterSettles
    \/ LegacyGenerateStorySettles

LegacySpec == Init /\ [][LegacyNext]_vars

----------------------------------------------------------------------------
(* StoryViewer: one mounted viewer, its handlers and effects.  A state     *)
(* update and the effect it triggers are one step; the request the viewer  *)
(* sends runs regeneratePageIllustrationAction as above.                   *)

\* const totalPages = currentStoryPages.length
totalPages == Len(currentStoryPages)

\* currentStoryPages[currentPageIndex] is defined
HasPage(index, pages) == index + 1 \in DOMAIN pages

\* const currentPageData = currentStoryPages[currentPageIndex]
currentPageData == currentStoryPages[currentPageIndex + 1]

\* Min2 without the clamp
Min2First(a, b) == a

Min2(a, b) == IF a <= b THEN a ELSE b

Max2(a, b) == IF a >= b THEN a ELSE b

\* PageEffect leaving the scene notes in the box
PageEffectKeepNotes(index, pages) ==
    IF HasPage(index, pages)
    THEN /\ editablePageText' = pages[index + 1].text
         /\ imageState' = "loading_page_image"
         /\ UNCHANGED pageSpecificDetails
    ELSE UNCHANGED <<editablePageText, imageState, pageSpecificDetails>>

\* useEffect(..., [currentPageIndex, currentStoryPages]) after one of the two changed
PageEffect(index, pages) ==
    IF HasPage(index, pages)
    THEN /\ editablePageText' = pages[index + 1].text
         /\ imageState' = "loading_page_image"
         /\ pageSpecificDetails' = ""
    ELSE UNCHANGED <<editablePageText, imageState, pageSpecificDetails>>

\* the viewer after its first render and effects
ViewerInit ==
    /\ pc = "idle"
    /\ payload = NoPayload
    /\ baseCharacterImageUri = Undefined
    /\ storyResult = OutputNull
    /\ coverImageUri = Undefined
    /\ illustratedPages = << >>
    /\ response = NoResponse
    /\ pageIndex = 0
    /\ calls = << >>
    /\ answers = << >>
    /\ rpc = "idle"
    /\ regenPayload = NoRegenPayload
    /\ regenResponse = NoRegenResponse
    /\ caught = NoError
    /\ viewerProps \in ViewerPropsValues
    /\ currentPageIndex = 0
    /\ currentStoryPages = viewerProps.pages
    /\ editablePageText = viewerProps.pages[1].text
    /\ pageSpecificDetails = ""
    /\ isRegenerating = FALSE
    /\ imageState = "loading_page_image"
    /\ toast = NoToast
    /\ vpc = "idle"
    /\ closure = NoClosure
    /\ HomeIdle

\* the server keeps nothing of a request that is over
RequestOver ==
    /\ rpc' = "idle"
    /\ regenPayload' = NoRegenPayload
    /\ regenResponse' = NoRegenResponse
    /\ calls' = << >>
    /\ answers' = << >>
    /\ caught' = NoError

\* the outcomes of ai.generate followed for a request of the viewer
ViewerOutcomes ==
    {Throw(ErrorOf("quota exceeded")),
     [kind |-> "return", error |-> NoError, media |-> Media(Str("data:image/png;base64,BBB"))]}

\* the request of the viewer settles on the server
ViewerRequestSettles == RegenerateSettlesFrom(ViewerOutcomes)

\* goToNextPage, and the effect if the index changed
goToNextPage ==
    /\ vpc # "unmounted"
    /\ currentPageIndex' = Min2(currentPageIndex + 1, totalPages - 1)
    /\ IF currentPageIndex' # currentPageIndex
       THEN PageEffect(currentPageIndex', currentStoryPages)
       ELSE UNCHANGED <<editablePageText, imageState, pageSpecificDetails>>
    /\ UNCHANGED <<viewerProps, currentStoryPages, isRegenerating, toast, vpc, closure,
                   createVars, homeVars, regenVars, calls, answers, caught>>

\* goToPreviousPage, and the effect if the index changed
goToPreviousPage ==
    /\ vpc # "unmounted"
    /\ currentPageIndex' = Max2(currentPageIndex - 1, 0)
    /\ IF currentPageIndex' # currentPageIndex
       THEN PageEffect(currentPageIndex', currentStoryPages)
       ELSE UNCHANGED <<editablePageText, imageState, pageSpecificDetails>>
    /\ UNCHANGED <<viewerProps, currentStoryPages, isRegenerating, toast, vpc, closure,
                   createVars, homeVars, regenVars, calls, answers, caught>>

\* onChange of the page text: setEditablePageText(e.target.value)
EditPageText ==
    /\ vpc # "unmounted"
    /\ \E t \in TypedPageTexts : editablePageText' = t
    /\ UNCHANGED <<viewerProps, currentPageIndex, currentStoryPages, pageSpecificDetails,
                   isRegenerating, imageState, toast, vpc, closure,
                   createVars, homeVars, regenVars, calls, answers, caught>>

\* onChange of the scene notes: setPageSpecificDetails(e.target.value)
EditPageSpecificDetails ==
    /\ vpc # "unmounted"
    /\ \E d \in TypedDetails : pageSpecificDetails' = d
    /\ UNCHANGED <<viewerProps, currentPageIndex, currentStoryPages, editablePageText,
                   isRegenerating, imageState, toast, vpc, closure,
                   createVars, homeVars, regenVars, calls, answers, caught>>

\* the regenerate button disabled only when there is no page
RegenerateDisabledNoPage == ~HasPage(currentPageIndex, currentStoryPages)

\* the regenerate button: disabled={isRegenerating || !currentPageData}
RegenerateDisabled == isRegenerating \/ ~HasPage(currentPageIndex, currentStoryPages)

\* const payload: RegeneratePageIllustrationPayload = {...}
regeneratePayload ==
    [baseCharacterDataUri |-> viewerProps.originalCharacterUri,
     pageText |-> editablePageText,
     sceneDescription |-> currentPageData.sceneDescription,
     storyTheme |-> viewerProps.storyTheme,
     moralLesson |-> viewerProps.moralLesson,
     additionalDetails |-> sentAdditionalDetails(viewerProps.additionalDetails,
                                                 pageSpecificDetails)]

\* handleRegenerateIllustration up to its await
handleRegenerateIllustration ==
    /\ vpc # "unmounted"
    /\ ~RegenerateDisabled
    /\ isRegenerating' = TRUE
    /\ vpc' = "awaiting"
    /\ closure' = [currentPageIndex |-> currentPageIndex,
                   currentStoryPages |-> currentStoryPages,
                   editablePageText |-> editablePageText]
    /\ RegenerateStart(regeneratePayload)
    /\ UNCHANGED <<viewerProps, currentPageIndex, currentStoryPages, editablePageText,
                   pageSpecificDetails, imageState, toast, createVars, homeVars, answers>>

\* updatedPages that also rewrites the scene of the page from its new text
updatedPagesNewScene(result, c) ==
    [c.currentStoryPages EXCEPT ![c.currentPageIndex + 1] =
        [@ EXCEPT !.text = c.editablePageText, !.imageUri = result.newImageUri,
                  !.sceneDescription = c.editablePageText]]

\* updatedPages writing to the page displayed when the response arrives
updatedPagesDisplayed(result, c) ==
    [c.currentStoryPages EXCEPT ![currentPageIndex + 1] =
        [@ EXCEPT !.text = c.editablePageText, !.imageUri = result.newImageUri]]

\* updatedPages of a handler that closed over c
updatedPages(result, c) ==
    [c.currentStoryPages EXCEPT ![c.currentPageIndex + 1] =
        [@ EXCEPT !.text = c.editablePageText, !.imageUri = result.newImageUri]]

\* ApplyResult writing the base character into the page when the request failed
ApplyResultFallback(result, c) ==
    IF result.success /\ Truthy(result.newImageUri)
    THEN updatedPages(result, c)
    ELSE [c.currentStoryPages EXCEPT ![c.currentPageIndex + 1] =
             [@ EXCEPT !.text = c.editablePageText,
                       !.imageUri = Str(viewerProps.originalCharacterUri)]]

\* the page list after the await: set in the success branch only
ApplyResult(result, c) ==
    IF result.success /\ Truthy(result.newImageUri)
    THEN updatedPages(result, c)
    ELSE currentStoryPages

\* handleRegenerateIllustration after its await resolved, with the finally block
RegenerateResolves ==
    /\ vpc = "awaiting"
    /\ rpc = "done"
    /\ currentStoryPages' = ApplyResult(regenResponse, closure)
    /\ IF regenResponse.success /\ Truthy(regenResponse.newImageUri)
       THEN /\ toast' = [variant |-> "default", title |-> "Illustration Regenerated!"]
            /\ PageEffect(currentPageIndex, currentStoryPages')
       ELSE /\ toast' = [variant |-> "destructive",
                         title |-> "Error Regenerating Illustration"]
            /\ UNCHANGED <<editablePageText, imageState, pageSpecificDetails>>
    /\ isRegenerating' = FALSE
    /\ vpc' = "idle"
    /\ closure' = NoClosure
    /\ RequestOver
    /\ UNCHANGED <<viewerProps, currentPageIndex, createVars, homeVars>>

\* handleRegenerateIllustration after its await rejected (the request did not
\* reach the server, or its response did not come back): catch and finally
RegenerateRejects ==
    /\ vpc = "awaiting"
    /\ toast' = [variant |-> "destructive", title |-> "Error"]
    /\ isRegenerating' = FALSE
    /\ vpc' = "idle"
    /\ closure' = NoClosure
    /\ RequestOver
    /\ UNCHANGED <<viewerProps, currentPageIndex, currentStoryPages, editablePageText,
                   pageSpecificDetails, imageState, createVars, homeVars>>

\* let imgSrcToTry
imgSrcToTry ==
    IF /\ imageState = "loading_page_image"
       /\ HasPage(currentPageIndex, currentStoryPages)
       /\ Truthy(currentPageData.imageUri)
    THEN currentPageData.imageUri
    ELSE IF imageState \in {"loading_page_image", "loading_original_image"}
    THEN Str(viewerProps.originalCharacterUri)
    ELSE Undefined

\* currentPageData?.imageUri is truthy
hasImage ==
    /\ HasPage(currentPageIndex, currentStoryPages)
    /\ Truthy(currentPageData.imageUri)

\* imageStateAfterError trying the page image again when the original failed
imageStateAfterErrorRetry(state, pageHasImage) ==
    IF state = "loading_page_image" /\ pageHasImage
    THEN "loading_original_image"
    ELSE IF state = "loading_original_image" /\ pageHasImage
    THEN "loading_page_image"
    ELSE IF state = "loading_original_image" \/ (state = "loading_page_image" /\ ~pageHasImage)
    THEN "failed"
    ELSE state

\* the state handleImageError sets, or leaves
imageStateAfterError(state, pageHasImage) ==
    IF state = "loading_page_image" /\ pageHasImage
    THEN "loading_original_image"
    ELSE IF state = "loading_original_image" \/ (state = "loading_page_image" /\ ~pageHasImage)
    THEN "failed"
    ELSE state

\* onError of the <Image>, which is rendered for a data:image source only
handleImageError ==
    /\ vpc # "unmounted"
    /\ Truthy(imgSrcToTry) /\ StartsWith(imgSrcToTry[1], "data:image")
    /\ imageState' = imageStateAfterError(imageState, hasImage)
    /\ UNCHANGED <<viewerProps, currentPageIndex, currentStoryPages, editablePageText,
                   pageSpecificDetails, isRegenerating, toast, vpc, closure,
                   createVars, homeVars, regenVars, calls, answers, caught>>

ViewerNext ==
    \/ goToNextPage
    \/ goToPreviousPage
    \/ EditPageText
    \/ EditPageSpecificDetails
    \/ handleRegenerateIllustration
    \/ ViewerRequestSettles
    \/ RegenerateResolves
    \/ RegenerateRejects
    \/ handleImageError

ViewerSpec == ViewerInit /\ [][ViewerNext]_vars

----------------------------------------------------------------------------
(* HomePage: the form's processSubmit and the page's handleStoryCreate and *)
(* handleReset.  Each await is a step; the request answers one of          *)
(* HomeResponses or is rejected.                                           *)

\* the data of a successful response of createStoryAction (lib/actions.ts)
HomeStories ==
    {[title |-> t,
      story |-> "Once upon a time Mia found a kitten.",
      characterDescription |-> "A girl with curly hair",
      animatedCharacterUri |-> Str(u)] :
         t \in {"Mia and the Kitten", "The Lost Kitten"}, u \in GeneratedUris}

\* the responses of createStoryAction that are followed: a success, and a
\* failure with a message, with the service guidance and with an empty message
HomeResponses ==
    {[success |-> TRUE, hasData |-> TRUE, data |-> d, error |-> Undefined] : d \in HomeStories}
        \cup {LegacyFailure(e) : e \in {ErrorOf("quota exceeded"), ErrorOf("Upstream unavailable"),
                                         ErrorOf("fetch failed: upstream connect error"),
                                         ErrorOf("")}}

\* e.message of what the await throws when no response comes back
RejectionMessages == {"Failed to fetch", ""}

\* {error && !isLoading && <Alert>}
ErrorShown == Truthy(error) /\ ~isLoading

\* {!storyData && !isLoading && <CharacterCreationForm>}
FormShown == storyData = Null /\ ~isLoading

\* {storyData && !isLoading && <StoryViewer>}
ViewerShown == storyData # Null /\ ~isLoading

\* what the home page handlers leave alone: the server and the viewer
HomeFrame ==
    UNCHANGED <<createVars, regenVars, calls, answers, caught, viewerProps,
                currentPageIndex, currentStoryPages, editablePageText,
                pageSpecificDetails, isRegenerating, imageState, vpc, closure>>

\* the submit button of the form, with a file chosen: processSubmit up to
\* await fileToDataUri
processSubmit ==
    /\ FormShown
    /\ submitting + creating < MaxSubmissions
    /\ submitting' = submitting + 1
    /\ UNCHANGED <<storyData, isLoading, error, creating, toast>>
    /\ HomeFrame

\* fileToDataUri resolved: processSubmit calls onSubmit, and handleStoryCreate
\* runs up to await createStoryAction
handleStoryCreate ==
    /\ submitting > 0
    /\ submitting' = submitting - 1
    /\ isLoading' = TRUE
    /\ error' = Null
    /\ creating' = creating + 1
    /\ UNCHANGED <<storyData, toast>>
    /\ HomeFrame

\* result.error || 'Failed to create story. Please try again.'
responseErrorMessage(result) ==
    IF Truthy(result.error) THEN result.error[1]
    ELSE "Failed to create story. Please try again."

\* handleStoryCreate after its await resolved, with the finally block
CreateStoryResolves ==
    /\ creating > 0
    /\ \E result \in HomeResponses :
        IF result.success /\ result.hasData
        THEN /\ storyData' = <<result.data>>
             /\ toast' = [variant |-> "default", title |-> "Story Created!"]
             /\ UNCHANGED error
        ELSE /\ error' = Str(responseErrorMessage(result))
             /\ toast' = [variant |-> "destructive", title |-> "Error Creating Story"]
             /\ UNCHANGED storyData
    /\ isLoading' = FALSE
    /\ creating' = creating - 1
    /\ UNCHANGED submitting
    /\ HomeFrame

\* e.message || 'An unexpected error occurred.'
rejectionErrorMessage(message) ==
    IF message # "" THEN message ELSE "An unexpected error occurred."

\* handleStoryCreate after its await rejected: catch and finally
CreateStoryRejects ==
    /\ creating > 0
    /\ \E m \in RejectionMessages : error' = Str(rejectionErrorMessage(m))
    /\ toast' = [variant |-> "destructive", title |-> "Error"]
    /\ isLoading' = FALSE
    /\ creating' = creating - 1
    /\ UNCHANGED <<storyData, submitting>>
    /\ HomeFrame

\* onReset of the viewer the page shows
handleReset ==
    /\ ViewerShown
    /\ storyData' = Null
    /\ error' = Null
    /\ UNCHANGED <<isLoading, submitting, creating, toast>>
    /\ HomeFrame

HomeNext ==
    \/ processSubmit
    \/ handleStoryCreate
    \/ CreateStoryResolves
    \/ CreateStoryRejects
    \/ handleReset

HomeSpec == Init /\ [][HomeNext]_vars

----------------------------------------------------------------------------
(* Vocabulary of the properties.  In a createStoryAction run answers[1] is *)
(* the styler's, answers[2] the composer's, answers[3] the cover's and     *)
(* answers[3 + i] page i's.                                                *)

HasImageMarker(x) == x # Undefined /\ StartsWith(x[1], "data:image")

\* an image call failed: it threw, gave no media or URL, or a URL without the marker
AnswerFailed(a) ==
    a.kind = "throw" \/ ~a.media.present \/ ~HasImageMarker(a.media.url)

\* the composer answered a complete story
StoryComplete(a) ==
    /\ a.kind = "return"
    /\ a.output.present
    /\ a.output.title # ""
    /\ a.output.characterDescription # ""
    /\ a.output.hasPages
    /\ Len(a.output.pages) > 0

Succeeded == pc = "done" /\ response.success

ComposedPages == answers[2].output.pages

PageAnswer(i) == answers[3 + i]

----------------------------------------------------------------------------
(* C1: every settled page call leaves exactly one page in illustratedPages *)
(* (a failed one its fallback page), and a successful response carries as  *)
(* many pages as the composer returned.                                    *)
C1_PageCountPreserved ==
    /\ (pc \in {"generatePage", "done"} /\ Len(answers) >= 3)
           => Len(illustratedPages) = Len(answers) - 3
    /\ Succeeded => Len(response.data.pages) = Len(ComposedPages)

C1_Witness ==
    /\ Succeeded
    /\ Len(response.data.pages) = 2
    /\ AnswerFailed(PageAnswer(1))
    /\ ~AnswerFailed(PageAnswer(2))

(* C2: when exactly one page's illustration fails, that page carries the   *)
(* styled character, every other page the URL its own call answered, and   *)
(* no page is lost.                                                        *)
C2_SinglePageFallback ==
    Succeeded =>
        \A i \in 1..Len(ComposedPages) :
            (/\ AnswerFailed(PageAnswer(i))
             /\ \A j \in 1..Len(ComposedPages) : j # i => ~AnswerFailed(PageAnswer(j)))
            => /\ Len(response.data.pages) = Len(ComposedPages)
               /\ response.data.pages[i].imageUri = response.data.originalCharacterUri
               /\ response.data.originalCharacterUri = answers[1].media.url
               /\ \A j \in 1..Len(ComposedPages) :
                      j # i => response.data.pages[j].imageUri = PageAnswer(j).media.url

C2_Witness ==
    /\ Succeeded
    /\ Len(response.data.pages) = 2
    /\ PageAnswer(1).kind = "return"
    /\ PageAnswer(1).media.url = Str("https://cdn.example/img.png")
    /\ ~AnswerFailed(PageAnswer(2))
    /\ response.data.pages[2].imageUri # response.data.originalCharacterUri

(* C3: once the cover call has failed, the run still ends in success and   *)
(* the cover is the styled character.                                      *)
C3_CoverFallback ==
    (pc = "done" /\ Len(answers) >= 3 /\ AnswerFailed(answers[3]))
        => /\ response.success
           /\ HasImageMarker(response.data.coverImageUri)
           /\ response.data.coverImageUri = response.data.originalCharacterUri

C3_Witness ==
    /\ Succeeded
    /\ answers[3].kind = "return"
    /\ answers[3].media.url = Str("data:text/plain;base64,QQ==")
    /\ response.data.coverImageUri = response.data.originalCharacterUri

(* C4: the run succeeds exactly when the photo has the marker, the styler  *)
(* answered a valid asset and the composer a complete story; what the      *)
(* cover and page calls do never matters.                                  *)
C4_SuccessIffFatalStagesPass ==
    pc = "done" =>
        (response.success <=>
            /\ StartsWith(payload.characterImageDataUri, "data:image")
            /\ Len(answers) >= 2
            /\ ~AnswerFailed(answers[1])
            /\ StoryComplete(answers[2]))

C4_Witness ==
    /\ Succeeded
    /\ Len(ComposedPages) = 2
    /\ answers[3].kind = "throw"
    /\ \A i \in 1..2 : AnswerFailed(PageAnswer(i))

(* C5: a photo without the marker ends the run at once in a failure, with  *)
(* no flow invoked.                                                        *)
C5_InvalidPhotoNoCalls ==
    (pc # "idle" /\ ~StartsWith(payload.characterImageDataUri, "data:image"))
        => /\ pc = "done"
           /\ ~response.success
           /\ calls = << >>
           /\ answers = << >>

C5_Witness ==
    /\ pc = "done"
    /\ payload.characterImageDataUri = "data:text/plain;base64,QQ=="
    /\ ~response.success
    /\ calls = << >>

(* C6: a failed styler call ends the run in a failure; the composer, the   *)
(* cover and the page flows are not invoked and no asset stands in for the *)
(* styled character.                                                       *)
C6_StylerFatal ==
    (pc # "idle" /\ Len(answers) >= 1 /\ AnswerFailed(answers[1]))
        => /\ pc = "done"
           /\ ~response.success
           /\ ~response.hasData
           /\ baseCharacterImageUri = Undefined
           /\ Len(calls) = 1
           /\ calls[1].flow = "animateCharacter"

C6_Witness ==
    /\ pc = "done"
    /\ Len(answers) = 1
    /\ answers[1].kind = "return"
    /\ answers[1].media.url = Str("https://cdn.example/img.png")
    /\ response.error = Str("Base character image URI is not a valid image data URI.")

(* C7: a failed or incomplete composer answer ends the run in a failure    *)
(* with neither the cover nor a page flow invoked.                         *)
C7_ComposerFatal ==
    (pc # "idle" /\ Len(answers) >= 2 /\ ~StoryComplete(answers[2]))
        => /\ pc = "done"
           /\ ~response.success
           /\ ~response.hasData
           /\ Len(calls) = 2
           /\ \A k \in 1..Len(calls) :
                  calls[k].flow \notin {"generateCoverImage", "generatePageIllustration"}

C7_Witness ==
    /\ pc = "done"
    /\ Len(answers) = 2
    /\ answers[2].kind = "return"
    /\ answers[2].output.present
    /\ answers[2].output.title = ""
    /\ Len(answers[2].output.pages) = 2
    /\ ~response.success

(* C8: a failed regeneration returns a failure with an error and no image: *)
(* neither the base character nor any other URI is returned.               *)
C8_RegenerateNoFallback ==
    (rpc = "done" /\ Len(answers) = 1 /\ AnswerFailed(answers[1]))
        => /\ ~regenResponse.success
           /\ regenResponse.error # Undefined
           /\ regenResponse.newImageUri = Undefined

C8_Witness ==
    /\ rpc = "done"
    /\ Len(answers) = 1
    /\ answers[1].kind = "return"
    /\ answers[1].media.url = Str("https://cdn.example/img.png")
    /\ ~regenResponse.success
    /\ regenResponse.error = Str(RegenServiceGuidance)

(* C9: every asset of a successful result carries the image-data marker.   *)
C9_ResultAssetsValid ==
    Succeeded =>
        /\ HasImageMarker(response.data.originalCharacterUri)
        /\ HasImageMarker(response.data.coverImageUri)
        /\ \A i \in 1..Len(response.data.pages) :
               HasImageMarker(response.data.pages[i].imageUri)

C9_Witness ==
    /\ Succeeded
    /\ answers[3].kind = "return"
    /\ answers[3].media.url = Str("https://cdn.example/img.png")
    /\ Len(response.data.pages) = 2
    /\ PageAnswer(1).kind = "return"
    /\ PageAnswer(1).media.url = Str("data:text/plain;base64,QQ==")
    /\ PageAnswer(2).kind = "return"
    /\ PageAnswer(2).media.url = Str("")

\* every field of StoryData is there
CompleteStoryData(d) ==
    /\ d.title # ""
    /\ d.characterDescription # ""
    /\ d.characterName # ""
    /\ Truthy(d.originalCharacterUri)
    /\ Truthy(d.coverImageUri)
    /\ Len(d.pages) > 0
    /\ \A i \in 1..Len(d.pages) : Truthy(d.pages[i].imageUri)

(* C10: a response is either success with a complete StoryData and no      *)
(* error, or a failure with a non-empty error message and no data.         *)
C10_TwoShapes ==
    pc = "done" =>
        \/ /\ response.success
           /\ response.hasData
           /\ CompleteStoryData(response.data)
           /\ response.error = Undefined
        \/ /\ ~response.success
           /\ ~response.hasData
           /\ response.data = NoData
           /\ Truthy(response.error)

(* C12: in a successful result page i carries the text and the scene       *)
(* description of the composer's i-th page, whichever illustration calls   *)
(* failed.                                                                 *)
C12_PagesInComposerOrder ==
    Succeeded =>
        /\ Len(response.data.pages) = Len(ComposedPages)
        /\ \A i \in 1..Len(ComposedPages) :
               /\ response.data.pages[i].text = ComposedPages[i].text
               /\ response.data.pages[i].sceneDescription = ComposedPages[i].sceneDescription

C12_Witness ==
    /\ Succeeded
    /\ Len(ComposedPages) = 2
    /\ ComposedPages[1].text = "Mia took the kitten home."
    /\ ComposedPages[2].text = "Mia found a lost kitten."
    /\ response.data.pages[1].text = "Mia took the kitten home."
    /\ AnswerFailed(PageAnswer(1))
    /\ ~AnswerFailed(PageAnswer(2))

\* the flow that the k-th call of a createStoryAction run is made to
StageFlow(k) ==
    IF k = 1 THEN "animateCharacter"
    ELSE IF k = 2 THEN "generateStoryFromPreferences"
    ELSE IF k = 3 THEN "generateCoverImage"
    ELSE "generatePageIllustration"

(* C13: a call starts only when every earlier call has settled; the calls  *)
(* go to the styler, the composer, the cover and then the pages in         *)
(* composer order; success comes only after the cover call and all N page  *)
(* calls have settled.                                                     *)
C13_StageOrder ==
    pc # "idle" =>
        /\ Len(answers) <= Len(calls)
        /\ Len(calls) <= Len(answers) + 1
        /\ (pc # "done") => Len(calls) = Len(answers) + 1
        /\ \A k \in 1..Len(calls) : calls[k].flow = StageFlow(k)
        /\ \A k \in 4..Len(calls) :
               /\ k - 3 <= Len(ComposedPages)
               /\ calls[k].pageText = ComposedPages[k - 3].text
               /\ calls[k].sceneDescription = ComposedPages[k - 3].sceneDescription
        /\ Succeeded =>
               /\ Len(calls) = 3 + Len(ComposedPages)
               /\ Len(answers) = Len(calls)

C13_Witness ==
    /\ Succeeded
    /\ Len(answers) = 5
    /\ calls[4].pageText = "Mia took the kitten home."
    /\ calls[5].pageText = "Mia found a lost kitten."
    /\ AnswerFailed(answers[3])
    /\ AnswerFailed(PageAnswer(2))

HasMarker(m) ==
    \/ Includes(ToLowerCase(m), "candidate_finish_reason_safety")
    \/ Includes(m, "upstream")
    \/ Includes(m, "generation failed")

(* C15: the error of a failed createStoryAction or                         *)
(* regeneratePageIllustrationAction is one of the fixed guidance texts     *)
(* exactly when the raw message of what was caught has a marker (the       *)
(* safety marker in any letter case, 'upstream' or 'generation failed' as  *)
(* written); without a marker it is the raw message itself.                *)
C15_RewriteExactlyOnMarkers ==
    /\ (pc = "done" /\ ~response.success) =>
           LET m == CreateStoryRawMessage(caught)
           IN  /\ HasMarker(m) <=> response.error \in {Str(SafetyGuidance), Str(ServiceGuidance)}
               /\ ~HasMarker(m) => response.error = Str(m)
    /\ (rpc = "done" /\ ~regenResponse.success) =>
           LET m == RegenRawMessage(caught)
           IN  /\ HasMarker(m) <=>
                      regenResponse.error \in {Str(RegenSafetyGuidance), Str(RegenServiceGuidance)}
               /\ ~HasMarker(m) => regenResponse.error = Str(m)

C15_Witness ==
    /\ pc = "done"
    /\ caught = ErrorOf("FinishReason: CANDIDATE_FINISH_REASON_SAFETY")
    /\ response.error = Str(SafetyGuidance)

MismatchError ==
    ErrorOf("Critical error: Mismatch in page count after illustration generation.")

(* C16: when the loop has ended, illustratedPages is as long as the        *)
(* composer's page list, so the page-count check never throws and no       *)
(* response carries its message.                                           *)
C16_NoPageCountMismatch ==
    pc = "done" =>
        /\ Len(answers) >= 3 => Len(illustratedPages) = Len(storyResult.pages)
        /\ caught # MismatchError
        /\ response.error # Str(MismatchError.message)

C16_Witness ==
    /\ Succeeded
    /\ Len(storyResult.pages) = 2
    /\ Len(illustratedPages) = 2
    /\ PageAnswer(1).kind = "throw"
    /\ PageAnswer(2).kind = "return"
    /\ ~PageAnswer(2).media.present

\* the promise of createStoryAction has resolved with a response
Resolved ==
    /\ pc = "done"
    /\ \/ response.success /\ response.hasData
       \/ ~response.success /\ response.error # Undefined

\* the promise of regeneratePageIllustrationAction has resolved with a response
RegenResolved ==
    /\ rpc = "done"
    /\ \/ regenResponse.success /\ regenResponse.newImageUri # Undefined
       \/ ~regenResponse.success /\ regenResponse.error # Undefined

(* C17: when every awaited flow call settles, a started createStoryAction  *)
(* resolves with a response, and so does a started                         *)
(* regeneratePageIllustrationAction; what a call throws ends in a failure  *)
(* response, not in a rejection.                                           *)
C17_AlwaysResolves ==
    /\ (pc # "idle") ~> Resolved
    /\ (rpc # "idle") ~> RegenResolved

C17_Witness ==
    /\ Resolved
    /\ Len(answers) = 2
    /\ caught = [type |-> "other", message |-> ""]
    /\ response.error = Str("An unknown error occurred while creating the story.")

\* how many calls of the run went to the flow
CallsTo(flow) == Cardinality({k \in 1..Len(calls) : calls[k].flow = flow})

(* C18: one run calls the styler, the composer and the cover flow at most  *)
(* once each and the page flow at most once per composed page, however the *)
(* calls end; a successful run of N pages has made exactly 3 + N calls.    *)
C18_SingleShot ==
    pc # "idle" =>
        /\ CallsTo("animateCharacter") <= 1
        /\ CallsTo("generateStoryFromPreferences") <= 1
        /\ CallsTo("generateCoverImage") <= 1
        /\ CallsTo("generatePageIllustration") =
               (IF pc \in {"generatePage", "done"} /\ Len(calls) > 3 THEN pageIndex ELSE 0)
        /\ Len(answers) >= 2 => CallsTo("generatePageIllustration") <= Len(ComposedPages)
        /\ Succeeded => Len(calls) = 3 + Len(ComposedPages)

C18_Witness ==
    /\ Succeeded
    /\ Len(calls) = 4
    /\ answers[3].kind = "return"
    /\ ~answers[3].media.present
    /\ PageAnswer(1).kind = "throw"

(* C19: a regeneration whose base character lacks the 'data:image' prefix  *)
(* ends at once in a failure, and the illustration flow is not called.     *)
C19_RegenerateRejectsInvalidBase ==
    (rpc # "idle" /\ ~StartsWith(regenPayload.baseCharacterDataUri, "data:image"))
        => /\ rpc = "done"
           /\ ~regenResponse.success
           /\ regenResponse.newImageUri = Undefined
           /\ calls = << >>
           /\ answers = << >>

C19_Witness ==
    /\ rpc = "done"
    /\ regenPayload.baseCharacterDataUri = "https://cdn.example/base.png"
    /\ regenResponse.error = Str("Invalid base character image data URI for regeneration.")
    /\ calls = << >>

----------------------------------------------------------------------------
(* Vocabulary of the viewer's properties *)

\* where sub occurs in s
Occurrences(s, sub) ==
    {i \in 1..(Len(s) - Len(sub) + 1) : SubSeq(s, i, i + Len(sub) - 1) = sub}

\* s holds a, later the scene clause, later b
InOrder(s, a, b) ==
    \E i \in Occurrences(s, a), j \in Occurrences(s, SceneClause), k \in Occurrences(s, b) :
        i + Len(a) <= j /\ j + Len(SceneClause) <= k

OrEmpty(x) == IF x = Undefined THEN "" ELSE x[1]

\* the law of the merge for general details a, scene notes b and the string sent
MergeLaw(a, b, sent) ==
    /\ Trim(b) # "" => sent # Undefined /\ InOrder(sent[1], a, b)
    /\ (Trim(b) = "" /\ Trim(a) # "") => sent = Str(a)
    /\ (Trim(b) = "" /\ Trim(a) = "") => sent = Undefined

\* a step in which the viewer sends a regeneration request
RequestSent == vpc = "idle" /\ vpc' = "awaiting"

\* the flow is called with the details of the payload
DetailsPassedOn ==
    rpc' = "generatePage"
        => calls'[Len(calls')].additionalDetails = regenPayload'.additionalDetails

(* C11, as stated: the string sent holds A and later B as they are, is A   *)
(* alone when B is blank, and is undefined when both are blank.            *)
C11_PromptMergeVerbatim ==
    [][RequestSent =>
          MergeLaw(OrEmpty(viewerProps.additionalDetails), pageSpecificDetails,
                   regenPayload'.additionalDetails)]_vars

(* C11: the string sent holds A and later B, each without the white space  *)
(* around it, joined by the scene clause; it is the trimmed A alone when B *)
(* is blank, and undefined when both are blank; the flow is called with it.*)
C11_PromptMergeTrimmed ==
    [][RequestSent =>
          /\ MergeLaw(Trim(OrEmpty(viewerProps.additionalDetails)), Trim(pageSpecificDetails),
                      regenPayload'.additionalDetails)
          /\ DetailsPassedOn]_vars

C11_Witness ==
    /\ vpc = "awaiting"
    /\ rpc = "generatePage"
    /\ viewerProps.additionalDetails = Str("wears a red cape")
    /\ calls[1].additionalDetails =
           Str("wears a red cape\nFor this specific scene, also consider these visual details: a red scarf")

\* a step in which the request of the viewer ends without a new image: the
\* response is a failure, or the request was rejected
RegenerationFailed ==
    /\ vpc = "awaiting"
    /\ vpc' = "idle"
    /\ toast'.variant = "destructive"

(* C20: when a regeneration requested from the viewer fails, the viewer's  *)
(* page list stays as it was: every page keeps its imageUri and its stored *)
(* text, and the base character is not written into any page.              *)
C20_FailedRegenerationKeepsPages ==
    [][RegenerationFailed => currentStoryPages' = currentStoryPages]_vars

C20_Witness ==
    /\ vpc = "idle"
    /\ toast = [variant |-> "destructive", title |-> "Error Regenerating Illustration"]
    /\ currentPageIndex = 0
    /\ editablePageText = "Mia found a tiny kitten."
    /\ currentStoryPages[1].text = "Mia found a lost kitten."
    /\ currentStoryPages[1].imageUri = Str("data:image/png;base64,AAA")

\* a step in which a request of the viewer ends with a new image
RegenerationSucceeded ==
    /\ vpc = "awaiting"
    /\ vpc' = "idle"
    /\ toast'.variant = "default"

\* the request sent carries the text of the text box and the scene description
\* the page came with, and the flow is called with both
SendsTextAndScene ==
    /\ regenPayload'.pageText = editablePageText
    /\ regenPayload'.sceneDescription =
           viewerProps.pages[currentPageIndex + 1].sceneDescription
    /\ rpc' = "generatePage" =>
           /\ calls'[Len(calls')].pageText = regenPayload'.pageText
           /\ calls'[Len(calls')].sceneDescription = regenPayload'.sceneDescription

\* between pages before and after, page k alone changed: to the text and image given
OnlyPageChanged(before, after, k, text, image) ==
    /\ Len(after) = Len(before)
    /\ \A i \in DOMAIN before : i # k => after[i] = before[i]
    /\ k \in DOMAIN before
    /\ after[k] = [text |-> text, sceneDescription |-> before[k].sceneDescription,
                   imageUri |-> image]

(* C21: a regeneration request carries the text of the text box and the    *)
(* page's original scene description; when it succeeds, the page it was    *)
(* sent for gets the sent text and the new image, and its scene            *)
(* description, every other page, the page count and the page order stay.  *)
C21_RegenerationChangesOnePage ==
    [][/\ RequestSent => SendsTextAndScene
       /\ RegenerationSucceeded =>
              OnlyPageChanged(currentStoryPages, currentStoryPages',
                              closure.currentPageIndex + 1,
                              regenPayload.pageText, regenResponse.newImageUri)]_vars

C21_Witness ==
    /\ vpc = "idle"
    /\ toast = [variant |-> "default", title |-> "Illustration Regenerated!"]
    /\ currentStoryPages[1] = [text |-> "Mia found a tiny kitten.",
                               sceneDescription |-> "Mia kneels by a kitten in the park",
                               imageUri |-> Str("data:image/png;base64,BBB")]
    /\ currentStoryPages[2] = viewerProps.pages[2]
    /\ Len(currentStoryPages) = 2

----------------------------------------------------------------------------
(* The preferences of a run *)

\* a step of a createStoryAction run
RunStep == pc # "idle" /\ rpc = "idle"

\* the call was given the theme of the payload, and its moral where the flow
\* takes one (GenerateCoverImageInput has no moralLesson)
GivenThemeAndMoral(c) ==
    /\ c.storyTheme = payload.storyTheme
    /\ c.flow # "generateCoverImage" => c.moralLesson = payload.moralLesson

\* the details the composer is given: payload.additionalDetails || ''
DetailsOrEmpty(d) == IF Truthy(d) THEN d ELSE Str("")

(* C22, as stated: the payload is never changed, and every call of the run *)
(* is given the theme, the moral and the details of the payload.           *)
C22_SamePreferencesEverywhere ==
    /\ [][RunStep => payload' = payload]_vars
    /\ [](pc # "idle" =>
            \A i \in DOMAIN calls :
                /\ GivenThemeAndMoral(calls[i])
                /\ calls[i].additionalDetails = payload.additionalDetails)

(* C22: the payload is never changed during a run; every call is given the *)
(* theme of the payload, every call but the cover's its moral, and every   *)
(* call its details, except that the composer is given the empty string    *)
(* when the payload has no details.                                        *)
C22_PreferencesKept ==
    /\ [][RunStep => payload' = payload]_vars
    /\ [](pc # "idle" =>
            \A i \in DOMAIN calls :
                /\ GivenThemeAndMoral(calls[i])
                /\ calls[i].additionalDetails =
                       IF calls[i].flow = "generateStoryFromPreferences"
                       THEN DetailsOrEmpty(payload.additionalDetails)
                       ELSE payload.additionalDetails)

C22_Witness ==
    /\ pc = "done"
    /\ response.success
    /\ Len(calls) = 3 + MaxPages
    /\ payload.additionalDetails = Undefined
    /\ calls[2].additionalDetails = Str("")
    /\ calls[3].additionalDetails = Undefined
    /\ calls[4].moralLesson = "kindness"

\* the user has left the page the pending request was sent for
NavigatedAway == vpc = "awaiting" /\ closure.currentPageIndex # currentPageIndex

(* C23: when the user has gone to another page while the request was in    *)
(* flight, a successful result is written to the page the request was sent *)
(* for; the page displayed stays the one displayed and keeps its imageUri. *)
C23_ResultGoesToRequestedPage ==
    [][(NavigatedAway /\ RegenerationSucceeded) =>
          /\ currentStoryPages'[closure.currentPageIndex + 1].imageUri =
                 regenResponse.newImageUri
          /\ currentPageIndex' = currentPageIndex
          /\ currentStoryPages'[currentPageIndex + 1].imageUri =
                 currentStoryPages[currentPageIndex + 1].imageUri]_vars

C23_Witness ==
    /\ NavigatedAway
    /\ closure.currentPageIndex = 0
    /\ currentPageIndex = 1
    /\ rpc = "done"
    /\ regenResponse.success
    /\ regenResponse.newImageUri = Str("data:image/png;base64,BBB")
    /\ currentStoryPages[2].imageUri = Str("data:image/png;base64,BASE")

\* a step in which a request is handed to the server action
RequestStarts == regenPayload' # regenPayload /\ regenPayload' # NoRegenPayload

\* a step in which the pending request of the viewer ends: with a success
\* response, a failure response or a rejection
RequestEnds == vpc = "awaiting" /\ vpc' = "idle"

(* C24: isRegenerating, which disables the regenerate button, is true      *)
(* exactly while a request of the viewer is pending; a request starts only *)
(* when none is pending, so the server holds at most one; and the flag is  *)
(* false again when the request has ended, however it ended.               *)
C24_OneRegenerationAtATime ==
    /\ [](/\ isRegenerating <=> vpc = "awaiting"
          /\ rpc # "idle" => vpc = "awaiting"
          /\ Len(calls) <= 1)
    /\ [][RequestStarts => ~isRegenerating /\ isRegenerating' /\ rpc = "idle"]_vars
    /\ [][RequestEnds => ~isRegenerating']_vars

C24_Witness ==
    /\ vpc = "idle"
    /\ ~isRegenerating
    /\ rpc = "idle"
    /\ toast = [variant |-> "destructive", title |-> "Error"]
    /\ ~RegenerateDisabled

\* how far the loading of the displayed page's image has fallen back
Rank(state) ==
    IF state = "loading_page_image" THEN 0
    ELSE IF state = "loading_original_image" THEN 1
    ELSE 2

\* a step in which the viewer shows another page, or its page list was set
PageOrListChanged == currentPageIndex' # currentPageIndex \/ RegenerationSucceeded

C26_IndexStaysOnAPage ==
    /\ [](totalPages >= 1 /\ currentPageIndex \in 0..(totalPages - 1))
    /\ [][goToNextPage =>
             currentPageIndex' = IF currentPageIndex = totalPages - 1
                                 THEN currentPageIndex ELSE currentPageIndex + 1]_vars
    /\ [][goToPreviousPage =>
             currentPageIndex' = IF currentPageIndex = 0
                                 THEN currentPageIndex ELSE currentPageIndex - 1]_vars

C26_Witness ==
    /\ totalPages = 2
    /\ currentPageIndex = totalPages - 1
    /\ editablePageText = "She carried it home."
    /\ ENABLED goToNextPage

\* the details sent carry no scene notes
NoNotesSent(sent) == sent = Undefined \/ Occurrences(sent[1], SceneClause) = {}

(* C27: a step that changes the page index or sets the page list leaves    *)
(* the scene notes empty, and the notes otherwise change only by typing on *)
(* the page displayed; a request sent while the notes are blank carries no *)
(* scene notes, so notes of another page or of an earlier successful       *)
(* regeneration are never sent.                                            *)
C27_NotesClearedOnPageChange ==
    /\ [][PageOrListChanged => pageSpecificDetails' = ""]_vars
    /\ [][pageSpecificDetails' # pageSpecificDetails =>
             pageSpecificDetails' = "" \/ ~PageOrListChanged]_vars
    /\ [][(RequestSent /\ Trim(pageSpecificDetails) = "") =>
             NoNotesSent(regenPayload'.additionalDetails)]_vars

C27_Witness ==
    /\ vpc = "awaiting"
    /\ rpc = "done"
    /\ regenResponse.success
    /\ pageSpecificDetails = " a red scarf "
    /\ ~NoNotesSent(regenPayload.additionalDetails)
    /\ closure.currentPageIndex = currentPageIndex

----------------------------------------------------------------------------
\* the message has the safety marker and a service marker as well
BothMarkers(m) ==
    /\ Includes(ToLowerCase(m), "candidate_finish_reason_safety")
    /\ Includes(m, "upstream") \/ Includes(m, "generation failed")

(* C30: when the raw message of what was caught has the safety marker and  *)
(* also 'upstream' or 'generation failed', the failure of createStoryAction *)
(* and of regeneratePageIllustrationAction carries the safety guidance, not *)
(* the service guidance.                                                   *)
C30_SafetyTakesPrecedence ==
    /\ (pc = "done" /\ ~response.success /\ BothMarkers(CreateStoryRawMessage(caught))) =>
           response.error = Str(SafetyGuidance)
    /\ (rpc = "done" /\ ~regenResponse.success /\ BothMarkers(RegenRawMessage(caught))) =>
           regenResponse.error = Str(RegenSafetyGuidance)

C30_Witness ==
    /\ pc = "done"
    /\ caught = ErrorOf("candidate_finish_reason_safety from upstream")
    /\ response.error = Str(SafetyGuidance)

----------------------------------------------------------------------------
(* Vocabulary of the home page's properties *)

\* a create-story request is awaited
RequestPending == creating > 0

(* C28, as stated: the page never shows a story and an error together.     *)
C28_StoryAndErrorNeverCoexist == ~(ViewerShown /\ ErrorShown)

(* C29, as stated: isLoading is true as long as a create-story request is  *)
(* awaited and false when none is; while it is true neither the form nor   *)
(* the viewer is shown, and no second request starts while one is awaited. *)
C29_LoadingCoversTheRequest ==
    /\ [](isLoading <=> RequestPending)
    /\ [](isLoading => ~FormShown /\ ~ViewerShown)
    /\ [][creating' > creating => ~RequestPending]_vars

====
